---- MODULE Spec2Model ----
(***************************************************************************)
(* DirMon: the monitor() function of DirMon.cpp.                           *)
(*                                                                         *)
(* Two threads share timeSig (start of the pending burst), timeSigLast     *)
(* (latest notification), the flag done and the mutex muxSig.  The ticker  *)
(* thread (the lambda of lines 117-162) sleeps, evaluates the two          *)
(* timestamps and runs the batch file; the recorder (the do/while of lines *)
(* 164-187, on the calling thread) waits for a change notification and     *)
(* stamps it.  A time_t of 0 means "unset".  Time is in seconds, as        *)
(* time(nullptr) returns it.                                               *)
(*                                                                         *)
(* The ticker reads timeSig and timeSigLast before it takes muxSig, while  *)
(* the recorder may be writing them.  Each such read is a step of its own  *)
(* and returns what the variable holds at that step, so every order of the *)
(* reads and the writes is a behaviour of the model.                       *)
(***************************************************************************)
EXTENDS Integers, FiniteSets, Sequences, TLC

\* ------------------------------------------------------------------ bounds
\* The clock runs from 1 to MaxClock.
MaxClock == 71
\* Seconds by which one step of the clock advances it.
TickStep == 5

\* ------------------------------------------------------- program constants
\* ::Sleep(5000)
PollInterval == 5
\* now - timeSigLast < 5
QuietPeriod == 5
\* now - timeSig < 60
MaxWindow == 60

VARIABLES
    clock,        \* what time(nullptr) returns now
    done,         \* bool done
    muxSig,       \* owner of mutex muxSig: "free", "ticker" or "recorder"
    timeSig,      \* time_t timeSig, 0 = unset
    timeSigLast,  \* time_t timeSigLast, 0 = unset
    tpc,          \* position of the ticker thread
    tnow,         \* the ticker's local `now` (0 = out of scope)
    wake,         \* earliest time at which the running Sleep(5000) returns
    rpc,          \* position of the recorder (the calling thread)
    rnow,         \* the recorder's local `now` (0 = out of scope)
    recorded,     \* history: an event was recorded since the last action start
    arrived,      \* history: the last wait returned while the action was firing
    fired,        \* history: some fire has run to its end
    first,        \* history: when the first event since the last action start was recorded
    rarr,         \* history: when the last wait returned, if arrived (else 0)
    waitOk,       \* history: the wait whose event is being recorded did not fail
    status,       \* what the last _wsystem(batPath) returned: 0, or 1 for any non-zero value
    evalsAfter,   \* history: evaluations begun (line 123) with done set, counted up to 2
    firesAfter    \* history: fires begun (line 141) with done set, counted up to 2

vars == <<clock, done, muxSig, timeSig, timeSigLast, tpc, tnow, wake,
          rpc, rnow, recorded, arrived, fired, first, rarr, waitOk,
          status, evalsAfter, firesAfter>>

shared == <<timeSig, timeSigLast>>
tickerLocals == <<tpc, tnow, wake>>
recorderLocals == <<rpc, rnow>>

\* The fire path of the ticker: lines 141-160, all under lock_guard.
FirePcs == {"system", "reset1", "reset2", "unlock"}
\* The recorder's critical section: lines 167-185.
UpdatePcs == {"time", "setSig", "setLast", "unlock"}

TypeOK ==
    /\ clock \in 1..MaxClock
    /\ done \in BOOLEAN
    /\ muxSig \in {"free", "ticker", "recorder"}
    /\ timeSig \in 0..MaxClock
    /\ timeSigLast \in 0..MaxClock
    /\ tpc \in {"loop", "sleep", "check", "cmp60", "cmp5", "lock", "exit"} \cup FirePcs
    /\ tnow \in 0..MaxClock
    /\ wake \in 0..(MaxClock + PollInterval)
    /\ rpc \in {"wait", "lock", "next", "shutdown", "join", "returned"} \cup UpdatePcs
    /\ rnow \in 0..MaxClock
    /\ recorded \in BOOLEAN
    /\ arrived \in BOOLEAN
    /\ fired \in BOOLEAN
    /\ first \in 0..MaxClock
    /\ rarr \in 0..MaxClock
    /\ waitOk \in BOOLEAN
    /\ status \in {0, 1}
    /\ evalsAfter \in 0..2
    /\ firesAfter \in 0..2

Init ==
    /\ clock = 1
    /\ done = FALSE
    /\ muxSig = "free"
    /\ timeSig = 0
    /\ timeSigLast = 0
    /\ tpc = "loop"
    /\ tnow = 0
    /\ wake = 0
    /\ rpc = "wait"
    /\ rnow = 0
    /\ recorded = FALSE
    /\ arrived = FALSE
    /\ fired = FALSE
    /\ first = 0
    /\ rarr = 0
    /\ waitOk = TRUE
    /\ status = 0
    /\ evalsAfter = 0
    /\ firesAfter = 0

\* ------------------------------------------------------------------- clock
\* Time passes; time(nullptr) never goes back.
Tick ==
    /\ clock + TickStep <= MaxClock
    /\ clock' = clock + TickStep
    /\ UNCHANGED <<done, muxSig, shared, tickerLocals, recorderLocals, recorded, arrived, fired, first, rarr, waitOk, status, evalsAfter, firesAfter>>

\* ------------------------------------------------------------ ticker thread
\* TLoop that does not look at done.
TLoop_IgnoresDone ==
    /\ tpc = "loop"
    /\ tpc' = "sleep"
    /\ wake' = clock + PollInterval
    /\ UNCHANGED <<clock, done, muxSig, shared, tnow, recorderLocals, recorded, arrived, fired, first, rarr, waitOk, status, evalsAfter, firesAfter>>

\* while (!done) { ::Sleep(5000); ...      (the Sleep starts here)
TLoop ==
    /\ tpc = "loop"
    /\ IF done
         THEN /\ tpc' = "exit"
              /\ wake' = 0
         ELSE /\ tpc' = "sleep"
              /\ wake' = clock + PollInterval
    /\ UNCHANGED <<clock, done, muxSig, shared, tnow, recorderLocals, recorded, arrived, fired, first, rarr, waitOk, status, evalsAfter, firesAfter>>

\* ::Sleep(5000) returns, no earlier than 5 s after it was called.
TSleep ==
    /\ tpc = "sleep"
    /\ clock >= wake
    /\ tpc' = "check"
    /\ wake' = 0
    /\ UNCHANGED <<clock, done, muxSig, shared, tnow, recorderLocals, recorded, arrived, fired, first, rarr, waitOk, status, evalsAfter, firesAfter>>

\* TCheck without the test of timeSig: an unset burst is evaluated like a set one.
TCheck_NoUnsetTest ==
    /\ tpc = "check"
    /\ tpc' = "cmp60"
    /\ tnow' = clock
    /\ evalsAfter' = IF done /\ evalsAfter < 2 THEN evalsAfter + 1 ELSE evalsAfter
    /\ UNCHANGED <<clock, done, muxSig, shared, wake, recorderLocals, recorded, arrived, fired, first, rarr, waitOk, status, firesAfter>>

\* if (!timeSig) continue;  const time_t now = time(nullptr);
\* timeSig is read without the mutex.
TCheck ==
    /\ tpc = "check"
    /\ IF timeSig = 0
         THEN /\ tpc' = "loop"
              /\ tnow' = 0
         ELSE /\ tpc' = "cmp60"
              /\ tnow' = clock
    /\ evalsAfter' = IF done /\ evalsAfter < 2 THEN evalsAfter + 1 ELSE evalsAfter
    /\ UNCHANGED <<clock, done, muxSig, shared, wake, recorderLocals, recorded, arrived, fired, first, rarr, waitOk, status, firesAfter>>

\* TCmp60 without the forced trigger: an old burst still waits for a quiet period.
TCmp60_NoForce ==
    /\ tpc = "cmp60"
    /\ tpc' = "cmp5"
    /\ UNCHANGED <<clock, done, muxSig, shared, tnow, wake, recorderLocals, recorded, arrived, fired, first, rarr, waitOk, status, evalsAfter, firesAfter>>

\* if (now - timeSig < 60) {...} else { /* ignite */ }   (read without the mutex)
TCmp60 ==
    /\ tpc = "cmp60"
    /\ tpc' = IF tnow - timeSig < MaxWindow THEN "cmp5" ELSE "lock"
    /\ UNCHANGED <<clock, done, muxSig, shared, tnow, wake, recorderLocals, recorded, arrived, fired, first, rarr, waitOk, status, evalsAfter, firesAfter>>

\* TCmp5 with the comparison inverted.
TCmp5_Inverted ==
    /\ tpc = "cmp5"
    /\ IF tnow - timeSigLast >= QuietPeriod
         THEN /\ tpc' = "loop"
              /\ tnow' = 0
         ELSE /\ tpc' = "lock"
              /\ tnow' = tnow
    /\ UNCHANGED <<clock, done, muxSig, shared, wake, recorderLocals, recorded, arrived, fired, first, rarr, waitOk, status, evalsAfter, firesAfter>>

\* if (now - timeSigLast < 5) continue;                  (read without the mutex)
TCmp5 ==
    /\ tpc = "cmp5"
    /\ IF tnow - timeSigLast < QuietPeriod
         THEN /\ tpc' = "loop"
              /\ tnow' = 0
         ELSE /\ tpc' = "lock"
              /\ tnow' = tnow
    /\ UNCHANGED <<clock, done, muxSig, shared, wake, recorderLocals, recorded, arrived, fired, first, rarr, waitOk, status, evalsAfter, firesAfter>>

\* TLock without the mutex: the fire path starts whoever holds muxSig.
TLock_NoMutex ==
    /\ tpc = "lock"
    /\ tpc' = "system"
    /\ recorded' = FALSE
    /\ first' = 0
    /\ firesAfter' = IF done /\ firesAfter < 2 THEN firesAfter + 1 ELSE firesAfter
    /\ UNCHANGED <<clock, done, muxSig, shared, tnow, wake, recorderLocals, arrived, fired, rarr, waitOk, status, evalsAfter>>

\* lock_guard<mutex> lock(muxSig); the log line; _wsystem(batPath) is called.
TLock ==
    /\ tpc = "lock"
    /\ muxSig = "free"
    /\ muxSig' = "ticker"
    /\ tpc' = "system"
    /\ recorded' = FALSE
    /\ first' = 0
    /\ firesAfter' = IF done /\ firesAfter < 2 THEN firesAfter + 1 ELSE firesAfter
    /\ UNCHANGED <<clock, done, shared, tnow, wake, recorderLocals, arrived, fired, rarr, waitOk, status, evalsAfter>>

\* TSystem where a failed action ends the ticker thread.
TSystem_FailureStops ==
    /\ tpc = "system"
    /\ \E st \in {0, 1} :
          /\ status' = st
          /\ tpc' = IF st = 0 THEN "reset1" ELSE "exit"
    /\ UNCHANGED <<clock, done, muxSig, shared, tnow, wake, recorderLocals, recorded, arrived, fired, first, rarr, waitOk, evalsAfter, firesAfter>>

\* if (_wsystem(batPath)) wcerr << ...;  the action returns, with any status;
\* a non-zero one (the batch file failed or could not be launched) is logged.
TSystem ==
    /\ tpc = "system"
    /\ tpc' = "reset1"
    /\ \E st \in {0, 1} : status' = st
    /\ UNCHANGED <<clock, done, muxSig, shared, tnow, wake, recorderLocals, recorded, arrived, fired, first, rarr, waitOk, evalsAfter, firesAfter>>

\* timeSig = 0;
TReset1 ==
    /\ tpc = "reset1"
    /\ timeSig' = 0
    /\ tpc' = "reset2"
    /\ UNCHANGED <<clock, done, muxSig, timeSigLast, tnow, wake, recorderLocals, recorded, arrived, fired, first, rarr, waitOk, status, evalsAfter, firesAfter>>

\* TReset2 with the assignment forgotten.
TReset2_Forgotten ==
    /\ tpc = "reset2"
    /\ tpc' = "unlock"
    /\ UNCHANGED <<clock, done, muxSig, shared, tnow, wake, recorderLocals, recorded, arrived, fired, first, rarr, waitOk, status, evalsAfter, firesAfter>>

\* timeSigLast = 0;
TReset2 ==
    /\ tpc = "reset2"
    /\ timeSigLast' = 0
    /\ tpc' = "unlock"
    /\ UNCHANGED <<clock, done, muxSig, timeSig, tnow, wake, recorderLocals, recorded, arrived, fired, first, rarr, waitOk, status, evalsAfter, firesAfter>>

\* End of the loop body: ~lock_guard releases muxSig, `now` goes out of scope.
TUnlock ==
    /\ tpc = "unlock"
    /\ muxSig' = "free"
    /\ tpc' = "loop"
    /\ tnow' = 0
    /\ fired' = TRUE
    /\ UNCHANGED <<clock, done, shared, wake, recorderLocals, recorded, arrived, first, rarr, waitOk, status, evalsAfter, firesAfter>>

\* ----------------------------------------------------------------- recorder
\* WaitForSingleObject(h, INFINITE) returns, for a notification or with a
\* failure (WAIT_FAILED: the handle is no longer valid); its result is not
\* looked at.
RWait ==
    /\ rpc = "wait"
    /\ rpc' = "lock"
    /\ arrived' = (tpc \in FirePcs)
    /\ rarr' = IF tpc \in FirePcs THEN clock ELSE 0
    /\ \E ok \in BOOLEAN : waitOk' = ok
    /\ UNCHANGED <<clock, done, muxSig, shared, tickerLocals, rnow, recorded, fired, first, status, evalsAfter, firesAfter>>

\* RLock that does not wait for the mutex.
RLock_NoWait ==
    /\ rpc = "lock"
    /\ rpc' = "time"
    /\ UNCHANGED <<clock, done, muxSig, shared, tickerLocals, rnow, recorded, arrived, fired, first, rarr, waitOk, status, evalsAfter, firesAfter>>

\* lock_guard<mutex> lock(muxSig);
RLock ==
    /\ rpc = "lock"
    /\ muxSig = "free"
    /\ muxSig' = "recorder"
    /\ rpc' = "time"
    /\ UNCHANGED <<clock, done, shared, tickerLocals, rnow, recorded, arrived, fired, first, rarr, waitOk, status, evalsAfter, firesAfter>>

\* RTime that stamps a notification that had to wait for the fire path with
\* the time at which its wait returned.
RTime_AtArrival ==
    /\ rpc = "time"
    /\ rnow' = IF arrived THEN rarr ELSE clock
    /\ rpc' = "setSig"
    /\ UNCHANGED <<clock, done, muxSig, shared, tickerLocals, recorded, arrived, fired, first, rarr, waitOk, status, evalsAfter, firesAfter>>

\* time_t now = time(nullptr);  and the "(raw)" log line
RTime ==
    /\ rpc = "time"
    /\ rnow' = clock
    /\ rpc' = "setSig"
    /\ UNCHANGED <<clock, done, muxSig, shared, tickerLocals, recorded, arrived, fired, first, rarr, waitOk, status, evalsAfter, firesAfter>>

\* RSetSig without the test: every event restarts the burst.
RSetSig_Always ==
    /\ rpc = "setSig"
    /\ timeSig' = rnow
    /\ rpc' = "setLast"
    /\ UNCHANGED <<clock, done, muxSig, timeSigLast, tickerLocals, rnow, recorded, arrived, fired, first, rarr, waitOk, status, evalsAfter, firesAfter>>

\* if (!timeSig) timeSig = now;
RSetSig ==
    /\ rpc = "setSig"
    /\ timeSig' = IF timeSig = 0 THEN rnow ELSE timeSig
    /\ rpc' = "setLast"
    /\ UNCHANGED <<clock, done, muxSig, timeSigLast, tickerLocals, rnow, recorded, arrived, fired, first, rarr, waitOk, status, evalsAfter, firesAfter>>

\* timeSigLast = now;
RSetLast ==
    /\ rpc = "setLast"
    /\ timeSigLast' = rnow
    /\ rpc' = "unlock"
    /\ recorded' = TRUE
    /\ first' = IF recorded THEN first ELSE rnow
    /\ waitOk' = TRUE
    /\ UNCHANGED <<clock, done, muxSig, timeSig, tickerLocals, rnow, arrived, fired, rarr, status, evalsAfter, firesAfter>>

\* End of the do body: ~lock_guard releases muxSig.
RUnlock ==
    /\ rpc = "unlock"
    /\ muxSig' = "free"
    /\ rpc' = "next"
    /\ rnow' = 0
    /\ arrived' = FALSE
    /\ rarr' = 0
    /\ UNCHANGED <<clock, done, shared, tickerLocals, recorded, fired, first, waitOk, status, evalsAfter, firesAfter>>

\* while (FindNextChangeNotification(h));  TRUE re-arms the handle, FALSE ends the loop.
RFindNext ==
    /\ rpc = "next"
    /\ \E ok \in BOOLEAN : rpc' = IF ok THEN "wait" ELSE "shutdown"
    /\ UNCHANGED <<clock, done, muxSig, shared, tickerLocals, rnow, recorded, arrived, fired, first, rarr, waitOk, status, evalsAfter, firesAfter>>

\* done = true;
RShutdown ==
    /\ rpc = "shutdown"
    /\ done' = TRUE
    /\ rpc' = "join"
    /\ UNCHANGED <<clock, muxSig, shared, tickerLocals, rnow, recorded, arrived, fired, first, rarr, waitOk, status, evalsAfter, firesAfter>>

\* RJoin without the join: monitor() returns while the thread may still run.
RJoin_NoJoin ==
    /\ rpc = "join"
    /\ rpc' = "returned"
    /\ UNCHANGED <<clock, done, muxSig, shared, tickerLocals, rnow, recorded, arrived, fired, first, rarr, waitOk, status, evalsAfter, firesAfter>>

\* thd.join(); monitor() returns.
RJoin ==
    /\ rpc = "join"
    /\ tpc = "exit"
    /\ rpc' = "returned"
    /\ UNCHANGED <<clock, done, muxSig, shared, tickerLocals, rnow, recorded, arrived, fired, first, rarr, waitOk, status, evalsAfter, firesAfter>>

Next ==
    \/ Tick
    \/ TLoop \/ TSleep \/ TCheck \/ TCmp60 \/ TCmp5
    \/ TLock \/ TSystem \/ TReset1 \/ TReset2 \/ TUnlock
    \/ RWait \/ RLock \/ RTime \/ RSetSig \/ RSetLast
    \/ RUnlock \/ RFindNext \/ RShutdown \/ RJoin

Spec == Init /\ [][Next]_vars

\* ------------------------------------------------- the session left running
\* The code looks at the clock only through the differences now - timeSig and
\* now - timeSigLast, compared with 60 and 5.  LiveSpec therefore measures time
\* from a sliding origin, so that time never runs out: the present is always
\* MaxClock, and a tick moves every timestamp in use TickStep seconds into the
\* past, a timestamp more than MaxClock - 1 (>= MaxWindow) seconds old staying
\* at 1.
Shift(t) == IF t = 0 THEN 0 ELSE IF t - TickStep < 1 THEN 1 ELSE t - TickStep

\* Time passes.  A tick waits while an evaluation holds a `now` that the tick
\* would make older than 1 + MaxWindow: below that, a comparison with a
\* timestamp kept at 1 would not be the comparison the code makes.
LiveTick ==
    /\ clock = MaxClock
    /\ tpc \in {"cmp60", "cmp5"} => tnow - TickStep >= 1 + MaxWindow
    /\ timeSig' = Shift(timeSig)
    /\ timeSigLast' = Shift(timeSigLast)
    /\ tnow' = Shift(tnow)
    /\ rnow' = Shift(rnow)
    /\ wake' = Shift(wake)
    /\ first' = Shift(first)
    /\ rarr' = Shift(rarr)
    /\ UNCHANGED <<clock, done, muxSig, tpc, rpc, recorded, arrived, fired, waitOk, status, evalsAfter, firesAfter>>

LiveInit ==
    /\ clock = MaxClock
    /\ done = FALSE
    /\ muxSig = "free"
    /\ timeSig = 0
    /\ timeSigLast = 0
    /\ tpc = "loop"
    /\ tnow = 0
    /\ wake = 0
    /\ rpc = "wait"
    /\ rnow = 0
    /\ recorded = FALSE
    /\ arrived = FALSE
    /\ fired = FALSE
    /\ first = 0
    /\ rarr = 0
    /\ waitOk = TRUE
    /\ status = 0
    /\ evalsAfter = 0
    /\ firesAfter = 0

LiveNext ==
    \/ LiveTick
    \/ TLoop \/ TSleep \/ TCheck \/ TCmp60 \/ TCmp5
    \/ TLock \/ TSystem \/ TReset1 \/ TReset2 \/ TUnlock
    \/ RWait \/ RLock \/ RTime \/ RSetSig \/ RSetLast
    \/ RUnlock \/ RFindNext \/ RShutdown \/ RJoin

\* Both threads are scheduled fairly: a thread that can take its next step takes
\* it, a thread that finds the mutex free again and again gets it, the action
\* (TSystem) returns, and time passes.  Nothing makes a notification arrive
\* (RWait).
LiveFairness ==
    /\ WF_vars(LiveTick)
    /\ WF_vars(TLoop \/ TSleep \/ TCheck \/ TCmp60 \/ TCmp5)
    /\ SF_vars(TLock)
    /\ WF_vars(TSystem \/ TReset1 \/ TReset2 \/ TUnlock)
    /\ SF_vars(RLock)
    /\ WF_vars(RTime \/ RSetSig \/ RSetLast \/ RUnlock)
    /\ WF_vars(RFindNext \/ RShutdown \/ RJoin)

LiveSpec == LiveInit /\ [][LiveNext]_vars /\ LiveFairness

\* ------------------------------------------------------------------ claims
\* age and idle as the evaluation computes them, from its own `now`.
age == tnow - timeSig
idle == tnow - timeSigLast

\* C1: while the ticker is on its fire path (the action runs, then timeSig and
\* timeSigLast are reset) it holds muxSig and the recorder is not inside its
\* update of the two timestamps.
C1_FireExcludesRecord ==
    tpc \in FirePcs => (muxSig = "ticker" /\ rpc \notin UpdatePcs)

\* The action runs while a notification waits for the mutex.
C1_Witness ==
    tpc = "system" /\ rpc = "lock" /\ muxSig = "ticker"

\* C2: when the action starts, the burst as it then is has been idle for the
\* quiet period or is older than the maximum window, measured from the
\* evaluation's `now`.
C2_FiredBurstIsQuietOrOld ==
    tpc = "system" => (idle >= QuietPeriod \/ age >= MaxWindow)

\* C3: the ticker never reads timeSigLast while a recordEvent has written
\* timeSig and not yet timeSigLast.
C3_NoTornObservation ==
    [][TCmp5 => ~(rpc = "setLast" /\ timeSig # 0 /\ timeSigLast = 0)]_vars

\* C4: the action never starts with timeSig unset; an evaluation that finds
\* timeSig unset goes back to the top of the loop and changes neither timestamp;
\* and every action start comes after an event recorded since the previous start.
C4_OncePerBurst ==
    /\ [](tpc = "system" => timeSig # 0)
    /\ [][(tpc = "check" /\ timeSig = 0 /\ tpc' # tpc)
            => (tpc' = "loop" /\ UNCHANGED shared)]_vars
    /\ [][(tpc # "system" /\ tpc' = "system") => recorded]_vars

\* A second action runs, on a burst recorded after the first fire ended.
C4_Witness ==
    tpc = "system" /\ fired /\ timeSig # 0

\* C5: a notification whose wait returned while the action was firing is
\* recorded as a burst of its own (timeSig = timeSigLast = its timestamp), and
\* no reset erases an event recorded after the action started.
C5_EventDuringFireStartsBurst ==
    /\ []((rpc = "unlock" /\ arrived) => (timeSig = rnow /\ timeSigLast = rnow))
    /\ [][(timeSig' = 0 /\ timeSig # 0) \/ (timeSigLast' = 0 /\ timeSigLast # 0)
            => ~recorded]_vars

\* Such a notification has just been recorded.
C5_Witness ==
    rpc = "unlock" /\ arrived /\ fired /\ timeSig = rnow /\ timeSigLast = rnow

C7_ForcedTrigger ==
    /\ [][(tpc = "cmp60" /\ age >= MaxWindow /\ tpc' # tpc) => tpc' = "lock"]_vars
    /\ [][(tpc = "lock" /\ tpc' # tpc) => tpc' = "system"]_vars
    /\ [](tpc = "unlock" => (timeSig = 0 /\ timeSigLast = 0))

\* The action runs on a burst 60 s old whose last event is less than 5 s old.
C7_Witness ==
    tpc = "system" /\ age >= MaxWindow /\ idle < QuietPeriod /\ idle >= 0

\* C8: an evaluation that finds the burst younger than MaxWindow and idle for
\* at least QuietPeriod goes to the fire path, which runs the action once,
\* resets both timestamps and returns to the top of the loop.
C8_QuietTrigger ==
    /\ [][(tpc = "cmp5" /\ idle >= QuietPeriod /\ tpc' # tpc) => tpc' = "lock"]_vars
    /\ [][(tpc = "system" /\ tpc' # tpc) => tpc' = "reset1"]_vars
    /\ [][(tpc = "unlock" /\ tpc' # tpc)
            => (tpc' = "loop" /\ timeSig' = 0 /\ timeSigLast' = 0)]_vars

\* The action runs on a burst of several events that went quiet.
C8_Witness ==
    /\ tpc = "system"
    /\ age < MaxWindow
    /\ idle >= QuietPeriod
    /\ timeSigLast > timeSig

\* C9: whenever muxSig is free, timeSig is unset exactly when timeSigLast is.
C9_Consistent ==
    muxSig = "free" => ((timeSig = 0) <=> (timeSigLast = 0))

\* A fire has reset both and released the mutex.
C9_Witness ==
    muxSig = "free" /\ fired /\ tpc = "loop" /\ timeSig = 0 /\ timeSigLast = 0

\* C10: whenever both timestamps are set, timeSigLast >= timeSig.
C10_Ordered ==
    (timeSig # 0 /\ timeSigLast # 0) => timeSigLast >= timeSig

\* After a fire, a new burst holds events of different times.
C10_Witness ==
    fired /\ timeSig # 0 /\ timeSigLast > timeSig

\* C11: after each recordEvent, timeSig is the timestamp of the first
\* recordEvent since the last fire (or since the start) and timeSigLast is the
\* timestamp of this one; recordEvent writes timeSig only when it is unset and
\* always writes timeSigLast.
C11_RecordEvent ==
    /\ [](rpc = "unlock" => (timeSig = first /\ timeSigLast = rnow))
    /\ [][(rpc = "setSig" /\ rpc' # rpc)
            => timeSig' = (IF timeSig = 0 THEN rnow ELSE timeSig)]_vars
    /\ [][(rpc = "setLast" /\ rpc' # rpc) => timeSigLast' = rnow]_vars

\* A later event has been recorded into a burst that an earlier event started,
\* after a fire.
C11_Witness ==
    rpc = "unlock" /\ fired /\ timeSig = first /\ timeSigLast = rnow /\ rnow > first

C13_FailedWaitRecordsNothing ==
    [][(rpc \in UpdatePcs /\ ~waitOk) => UNCHANGED shared]_vars

\* C14: a fire whose action returned non-zero goes on as any other: both
\* timestamps are reset, the mutex is released, the ticker returns to the top
\* of its loop and the recorder is not touched; the next action starts only
\* after a new event has been recorded.
C14_FailureNotFatal ==
    /\ [][(tpc = "system" /\ tpc' # tpc /\ status' # 0)
            => (tpc' = "reset1" /\ UNCHANGED <<done, rpc, muxSig>>)]_vars
    /\ [][(tpc = "reset1" /\ tpc' # tpc /\ status # 0)
            => (tpc' = "reset2" /\ timeSig' = 0)]_vars
    /\ [][(tpc = "reset2" /\ tpc' # tpc /\ status # 0)
            => (tpc' = "unlock" /\ timeSigLast' = 0)]_vars
    /\ [][(tpc = "unlock" /\ tpc' # tpc /\ status # 0)
            => (tpc' = "loop" /\ muxSig' = "free" /\ UNCHANGED <<done, rpc>>)]_vars
    /\ [][(tpc # "system" /\ tpc' = "system" /\ status # 0) => recorded]_vars

\* After an action that failed, the action runs again on a later burst.
C14_Witness ==
    tpc = "system" /\ status # 0 /\ fired /\ timeSig # 0

\* C15: once FindNextChangeNotification has failed, done is set; once done is
\* set the ticker thread ends; and monitor() has returned only when the ticker
\* thread has ended.
C15_ShutdownJoined ==
    /\ (rpc = "shutdown") ~> done
    /\ done ~> (tpc = "exit")
    /\ [](rpc = "returned" => (done /\ tpc = "exit"))

\* monitor() has returned after a session in which the action ran.
C15_Witness ==
    rpc = "returned" /\ tpc = "exit" /\ done /\ fired

\* C16 (as stated): while the session runs, no burst is pending (timeSig set,
\* the action not yet started) more than MaxWindow + PollInterval after its
\* timeSig.
C16_PendingAtMost65 ==
    (~done /\ timeSig # 0 /\ tpc \notin FirePcs) => clock - timeSig <= MaxWindow + PollInterval

\* C16 (amended): an evaluation goes back to sleep only on a burst it found
\* younger than MaxWindow (and idle for less than QuietPeriod), so a burst is
\* fired by the first evaluation that finds it MaxWindow old; and a sleep ends
\* no earlier than PollInterval after it began, with no upper limit.
C16_FiredAtFirstOldEvaluation ==
    /\ [][(tpc = "cmp60" /\ tpc' # tpc /\ tpc' # "lock") => age < MaxWindow]_vars
    /\ [][(tpc = "cmp5" /\ tpc' = "loop") => (age < MaxWindow /\ idle < QuietPeriod)]_vars
    /\ [][(tpc = "sleep" /\ tpc' # tpc) => clock >= wake]_vars

\* The first evaluation that finds the burst MaxWindow old is about to fire it,
\* more than MaxWindow + PollInterval after the burst began.
C16_Witness ==
    /\ tpc = "lock" /\ ~done
    /\ age >= MaxWindow
    /\ clock - timeSig > MaxWindow + PollInterval

C18_NothingPendingAtReturn ==
    rpc = "returned" => (timeSig = 0 /\ timeSigLast = 0 /\ ~recorded)

====
